---- MODULE Spec2Model ----
(***************************************************************************)
(* withWorkspace (the request-authorization gate of the dub web app) and   *)
(* the POST /api/domains/[domain]/primary endpoint built on top of it.     *)
(*                                                                         *)
(* Strings that the code takes apart (Authorization header, idOrSlug,      *)
(* linkId, token.scopes) are sequences of segments, so that includes,      *)
(* startsWith, replace and split are computed and not assumed.  A missing  *)
(* value (undefined, null) and the empty string are both the empty         *)
(* sequence: every use the code makes of these values is a truthiness      *)
(* test, `x || undefined` or optional chaining, which treat them alike.    *)
(***************************************************************************)
EXTENDS Integers, Sequences, FiniteSets, TLC

VARIABLES domainPrimary, lastUsed, req, served

vars == <<domainPrimary, lastUsed, req, served>>

(***************************************************************************)
(* Bounds                                                                  *)
(***************************************************************************)
\* requests served one after the other in Spec
MaxRequests == 1
\* concurrent POST /api/domains/[domain]/primary requests in SpecConc
NumClients == 2

Clients == 1..NumClients

(***************************************************************************)
(* JavaScript string helpers                                               *)
(***************************************************************************)
Range(s) == {s[i] : i \in 1..Len(s)}

Truthy(s) == s # <<>>

\* String.prototype.startsWith
StartsWith(s, p) == Len(s) >= 1 /\ s[1] = p

\* String.prototype.includes
Includes(s, p) == \E i \in 1..Len(s) : s[i] = p

\* String.prototype.replace with a string pattern: first occurrence only
Replace(s, p) ==
  LET idx == {i \in 1..Len(s) : s[i] = p}
  IN IF idx = {} THEN s
     ELSE LET i == CHOOSE j \in idx : \A k \in idx : j <= k
          IN SubSeq(s, 1, i - 1) \o SubSeq(s, i + 1, Len(s))

\* String.prototype.split(" ")
RECURSIVE Split(_)
Split(s) ==
  LET idx == {i \in 1..Len(s) : s[i] = " "}
  IN IF idx = {} THEN <<s>>
     ELSE LET i == CHOOSE j \in idx : \A k \in idx : j <= k
          IN <<SubSeq(s, 1, i - 1)>> \o Split(SubSeq(s, i + 1, Len(s)))

(***************************************************************************)
(* Database content that no modelled operation writes                      *)
(***************************************************************************)
NoUser == ""

DUB_WORKSPACE_ID == <<"dub_id">>

AllPlans ==
  {"free", "pro", "business", "business plus", "business max",
   "business extra", "enterprise"}

\* prisma.project
Projects ==
  { [id |-> <<"acme_id">>, slug |-> <<"acme">>, plan |-> "pro",
     usage |-> 10, usageLimit |-> 50, linksUsage |-> 3, linksLimit |-> 5],
    [id |-> DUB_WORKSPACE_ID, slug |-> <<"dub">>, plan |-> "business",
     usage |-> 10, usageLimit |-> 50, linksUsage |-> 9, linksLimit |-> 5],
    [id |-> <<"solo_id">>, slug |-> <<"solo">>, plan |-> "free",
     usage |-> 60, usageLimit |-> 50, linksUsage |-> 7, linksLimit |-> 5] }

\* prisma.projectUsers
ProjectUsers ==
  { [projectId |-> <<"acme_id">>, userId |-> "alice", role |-> "owner"],
    [projectId |-> <<"acme_id">>, userId |-> "bob", role |-> "member"],
    [projectId |-> DUB_WORKSPACE_ID, userId |-> "bob", role |-> "owner"],
    [projectId |-> <<"solo_id">>, userId |-> "alice", role |-> "owner"] }

UserEmail == [u \in {"alice", "bob", "carol"} |-> <<u, "@example.com">>]

\* the clock read by new Date()
Now == 10

\* prisma.projectInvite
ProjectInvites ==
  { [email |-> <<"carol", "@example.com">>, projectId |-> <<"acme_id">>,
     expires |-> 20],
    [email |-> <<"carol", "@example.com">>, projectId |-> DUB_WORKSPACE_ID,
     expires |-> 5] }

\* prisma.domain: slug and owner (the primary flag is the variable domainPrimary)
Domains ==
  { [slug |-> <<"acme.co">>, projectId |-> <<"acme_id">>],
    [slug |-> <<"acme.link">>, projectId |-> <<"acme_id">>],
    [slug |-> <<"ac.me">>, projectId |-> <<"acme_id">>],
    [slug |-> <<"dub.sh">>, projectId |-> DUB_WORKSPACE_ID],
    [slug |-> <<"dub.example">>, projectId |-> DUB_WORKSPACE_ID] }

DomainSlugs == {d.slug : d \in Domains}

DomainOwner(slug) == (CHOOSE d \in Domains : d.slug = slug).projectId

\* isDubDomain: the default domains owned by Dub
isDubDomain(domain) == domain \in {<<"dub.sh">>}

\* prisma.link
Links ==
  { [id |-> <<"l_acme">>, projectId |-> <<"acme_id">>, externalId |-> <<"e1">>,
     domain |-> <<"acme.co">>, key |-> <<"promo">>],
    [id |-> <<"l_dub">>, projectId |-> DUB_WORKSPACE_ID, externalId |-> <<"e2">>,
     domain |-> <<"dub.sh">>, key |-> <<"promo">>] }

\* hashToken
HashToken(apiKey) == <<"sha256:">> \o apiKey

\* prisma.token
Tokens ==
  { [hashedKey |-> HashToken(<<"tok_alice">>), user |-> "alice"],
    [hashedKey |-> HashToken(<<"tok_orphan">>), user |-> NoUser] }

\* prisma.restrictedToken
RestrictedTokens ==
  { [hashedKey |-> HashToken(<<"dub_", "rw">>), user |-> "bob",
     projectId |-> <<"acme_id">>,
     scopes |-> <<"domains.read", " ", "domains.write", " ", "links.read",
                  " ", "links.write">>],
    [hashedKey |-> HashToken(<<"dub_", "ro">>), user |-> "alice",
     projectId |-> <<"acme_id">>,
     scopes |-> <<"domains.read", " ", "links.read">>] }

\* isBetaTester (edge config)
BetaTesters == {DUB_WORKSPACE_ID}

\* roleScopesMapping
roleScopesMapping ==
  [role \in {"owner", "member"} |->
     IF role = "owner"
     THEN << <<"domains.read">>, <<"domains.write">>, <<"links.read">>,
             <<"links.write">> >>
     ELSE << <<"domains.read">>, <<"links.read">>, <<"links.write">> >>]

\* throwIfNoAccess accepts when nothing is required or a required scope is held
HasAccess(scopes, requiredScopes) ==
  \/ requiredScopes = <<>>
  \/ \E i \in 1..Len(requiredScopes) : requiredScopes[i] \in Range(scopes)

(***************************************************************************)
(* Routes: the options a route passes to withWorkspace                     *)
(***************************************************************************)
\* the defaults of the options argument
DefaultOptions ==
  [requiredPlan |-> AllPlans, needNotExceededClicks |-> FALSE,
   needNotExceededLinks |-> FALSE, allowAnonymous |-> FALSE,
   skipLinkChecks |-> FALSE, domainChecks |-> FALSE, betaFeature |-> FALSE,
   requiredScopes |-> <<>>, skipScopeChecks |-> FALSE,
   analyticsPath |-> FALSE]

\* POST /api/domains/[domain]/primary
PrimaryOptions ==
  [DefaultOptions EXCEPT !.domainChecks = TRUE,
                         !.requiredScopes = << <<"domains.write">> >>]

\* option sets of the other callers of withWorkspace
RouteOptions ==
  [route \in {"primary", "createLink", "getLink", "linkExists", "analytics",
              "beta"} |->
     CASE route = "primary" -> PrimaryOptions
       [] route = "createLink" ->
            [DefaultOptions EXCEPT !.allowAnonymous = TRUE,
                                   !.needNotExceededLinks = TRUE,
                                   !.requiredScopes = << <<"links.write">> >>]
       [] route = "getLink" ->
            [DefaultOptions EXCEPT !.requiredScopes = << <<"links.read">> >>]
       [] route = "linkExists" ->
            [DefaultOptions EXCEPT !.skipLinkChecks = TRUE,
                                   !.skipScopeChecks = TRUE,
                                   !.requiredScopes = << <<"domains.write">> >>]
       [] route = "analytics" ->
            [DefaultOptions EXCEPT !.needNotExceededClicks = TRUE,
                                   !.analyticsPath = TRUE]
       [] route = "beta" ->
            [DefaultOptions EXCEPT !.betaFeature = TRUE,
                                   !.requiredPlan = {"business", "enterprise"}]]

Routes == DOMAIN RouteOptions

(***************************************************************************)
(* Responses                                                               *)
(***************************************************************************)
NoOutcome ==
  [kind |-> "none", code |-> "", message |-> "", anonymous |-> FALSE,
   workspaceId |-> <<>>, link |-> <<>>, scopes |-> <<>>, user |-> NoUser,
   domain |-> <<>>, touched |-> <<>>]

\* throw new DubApiError({code, message}), turned into the response by
\* handleAndReturnErrorResponse; workspaceId is the workspace resolved so far
Err(code, message, workspaceId) ==
  [NoOutcome EXCEPT !.kind = "error", !.code = code, !.message = message,
                    !.workspaceId = workspaceId]

\* handler({req, params, searchParams, headers}) of the anonymous path
AnonymousCall ==
  [NoOutcome EXCEPT !.kind = "handler", !.anonymous = TRUE]

\* handler({..., session, workspace, domain, link, scopes})
HandlerCall(user, workspaceId, domain, link, scopes) ==
  [NoOutcome EXCEPT !.kind = "handler", !.user = user,
                    !.workspaceId = workspaceId, !.domain = domain,
                    !.link = link, !.scopes = scopes]

(***************************************************************************)
(* The steps of withWorkspace                                              *)
(***************************************************************************)
\* prisma.token.findUnique / prisma.restrictedToken.findUnique; scopes,
\* rateLimit and projectId are selected for a restricted token only
FindToken(hashedKey, isRestrictedToken) ==
  IF isRestrictedToken
  THEN {[user |-> t.user, inScopes |-> TRUE, scopes |-> t.scopes,
         projectId |-> t.projectId] :
          t \in {x \in RestrictedTokens : x.hashedKey = hashedKey}}
  ELSE {[user |-> t.user, inScopes |-> FALSE, scopes |-> <<>>,
         projectId |-> <<>>] :
          t \in {x \in Tokens : x.hashedKey = hashedKey}}

ResolveWorkspaceId_NoTokenOverride(idOrSlug, isRestrictedToken, projectId) ==
  IF Truthy(idOrSlug) /\ StartsWith(idOrSlug, "ws_")
  THEN Replace(idOrSlug, "ws_")
  ELSE IF isRestrictedToken THEN projectId ELSE <<>>

\* workspaceId: from a ws_ id, overridden by the restricted token's projectId
ResolveWorkspaceId(idOrSlug, isRestrictedToken, projectId) ==
  IF isRestrictedToken THEN projectId
  ELSE IF Truthy(idOrSlug) /\ StartsWith(idOrSlug, "ws_")
       THEN Replace(idOrSlug, "ws_")
       ELSE <<>>

\* workspaceSlug
ResolveWorkspaceSlug(idOrSlug) ==
  IF Truthy(idOrSlug) /\ ~StartsWith(idOrSlug, "ws_") THEN idOrSlug ELSE <<>>

\* prisma.project.findUnique({where: {id, slug}}): a field left undefined
\* does not filter, the fields given must all match
FindWorkspace(workspaceId, workspaceSlug) ==
  {w \in Projects :
     /\ Truthy(workspaceId) => w.id = workspaceId
     /\ Truthy(workspaceSlug) => w.slug = workspaceSlug}

WorkspaceUsers_AnyUser(workspace, userId) ==
  {m \in ProjectUsers : \E w \in workspace : w.id = m.projectId}

\* include: {users: {where: {userId: session.user.id}}}
WorkspaceUsers(workspace, userId) ==
  {m \in ProjectUsers :
     m.userId = userId /\ \E w \in workspace : w.id = m.projectId}

\* the link fetched together with the workspace
FindLink(linkId, domain, key, workspaceId) ==
  IF Truthy(linkId)
  THEN IF StartsWith(linkId, "ext_") /\ Truthy(workspaceId)
       THEN {l \in Links : l.projectId = workspaceId
                           /\ l.externalId = Replace(linkId, "ext_")}
       ELSE {l \in Links : l.id = linkId}
  ELSE IF Truthy(domain) /\ Truthy(key)
       THEN {l \in Links : l.domain = domain /\ l.key = key}
       ELSE {}

\* the second fetch of a link given by external id when no workspace id was
\* known at the first
RefetchLink(linkId, link, workspaceId, workspace) ==
  IF Truthy(linkId) /\ StartsWith(linkId, "ext_") /\ link = {}
     /\ ~Truthy(workspaceId)
  THEN {l \in Links : l.projectId = workspace.id
                      /\ l.externalId = Replace(linkId, "ext_")}
  ELSE link

\* !workspace || !workspace.users.length
WorkspaceNotFound(workspace, users) == workspace = {} \/ users = {}

FindScopes_RoleOnly(token, role) == roleScopesMapping[role]

\* the scopes of the token, or of the caller's role in the workspace
FindScopes(token, role) ==
  IF token # {} /\ (CHOOSE t \in token : TRUE).inScopes
  THEN Split((CHOOSE t \in token : TRUE).scopes)
  ELSE roleScopesMapping[role]

DomainRejected_AnyWorkspace(domain, workspace, domainChecks) ==
  /\ Truthy(domain)
  /\ IF isDubDomain(domain)
     THEN domainChecks /\ workspace.id # DUB_WORKSPACE_ID
     ELSE ~\E d \in Domains : d.slug = domain

\* the domain does not belong to the workspace
DomainRejected(domain, workspace, domainChecks) ==
  /\ Truthy(domain)
  /\ IF isDubDomain(domain)
     THEN domainChecks /\ workspace.id # DUB_WORKSPACE_ID
     ELSE ~\E d \in Domains : d.projectId = workspace.id /\ d.slug = domain

ClicksExceeded(needNotExceededClicks, workspace) ==
  needNotExceededClicks /\ workspace.usage > workspace.usageLimit

LinksExceeded_Reversed(needNotExceededLinks, workspace) ==
  /\ needNotExceededLinks
  /\ workspace.linksLimit > workspace.linksUsage
  /\ (workspace.plan = "free" \/ workspace.plan = "pro")

\* links usage overage check
LinksExceeded(needNotExceededLinks, workspace) ==
  /\ needNotExceededLinks
  /\ workspace.linksUsage > workspace.linksLimit
  /\ (workspace.plan = "free" \/ workspace.plan = "pro")

LinkRejected_ExistsOnly(linkId, domain, key, skipLinkChecks, link, workspace) ==
  /\ (Truthy(linkId)
      \/ (Truthy(domain) /\ Truthy(key) /\ key # <<"_root">>))
  /\ ~skipLinkChecks
  /\ link = {}

\* link checks: the link is missing or owned by another workspace
LinkRejected(linkId, domain, key, skipLinkChecks, link, workspace) ==
  /\ (Truthy(linkId)
      \/ (Truthy(domain) /\ Truthy(key) /\ key # <<"_root">>))
  /\ ~skipLinkChecks
  /\ (link = {} \/ \E l \in link : l.projectId # workspace.id)

\* prisma.projectInvite.findUnique and the three errors that follow it
InviteError(email, workspace) ==
  LET pendingInvites ==
        {i \in ProjectInvites :
           i.email = email /\ i.projectId = workspace.id}
  IN IF pendingInvites = {}
     THEN Err("not_found", "Workspace not found.", workspace.id)
     ELSE IF (CHOOSE i \in pendingInvites : TRUE).expires < Now
          THEN Err("invite_expired", "Workspace invite expired.", workspace.id)
          ELSE Err("invite_pending", "Workspace invite pending.", workspace.id)

LinkIdOf(link) == IF link = {} THEN <<>> ELSE (CHOOSE l \in link : TRUE).id

\* from the lookup of the workspace to the call of the handler
Authorize(in, opts, userId, token, workspaceId, workspaceSlug) ==
  IF ~Truthy(workspaceId) /\ ~Truthy(workspaceSlug)
  THEN Err("internal_server_error", "findUnique needs id or slug", <<>>)
  ELSE
  LET workspaceSet == FindWorkspace(workspaceId, workspaceSlug)
      users == WorkspaceUsers(workspaceSet, userId)
      link0 == FindLink(in.linkId, in.domain, in.key, workspaceId)
  IN IF WorkspaceNotFound(workspaceSet, users)
     THEN Err("not_found", "Workspace not found.", <<>>)
     ELSE
     LET workspace == CHOOSE w \in workspaceSet : TRUE
         role == IF users = {} THEN "member"
                 ELSE (CHOOSE m \in users : TRUE).role
         scopes == FindScopes(token, role)
         link == RefetchLink(in.linkId, link0, workspaceId, workspace)
     IN IF ~opts.skipScopeChecks /\ ~HasAccess(scopes, opts.requiredScopes)
        THEN Err("forbidden", "Missing required scope.", workspace.id)
        ELSE IF opts.betaFeature /\ workspace.id \notin BetaTesters
        THEN Err("forbidden", "Unauthorized: Beta feature.", workspace.id)
        ELSE IF DomainRejected(in.domain, workspace, opts.domainChecks)
        THEN Err("forbidden", "Domain does not belong to workspace.",
                 workspace.id)
        ELSE IF users = {}
        THEN InviteError(UserEmail[userId], workspace)
        ELSE IF ClicksExceeded(opts.needNotExceededClicks, workspace)
        THEN Err("forbidden", "Exceeded clicks limit.", workspace.id)
        ELSE IF LinksExceeded(opts.needNotExceededLinks, workspace)
        THEN Err("forbidden", "Exceeded links limit.", workspace.id)
        ELSE IF workspace.plan \notin opts.requiredPlan
        THEN Err("forbidden", "Unauthorized: Need higher plan.", workspace.id)
        ELSE IF workspace.plan = "free" /\ token # {}
                /\ opts.analyticsPath
        THEN Err("forbidden", "Analytics API is only available on paid plans.",
                 workspace.id)
        ELSE IF LinkRejected(in.linkId, in.domain, in.key,
                             opts.skipLinkChecks, link, workspace)
        THEN Err("not_found", "Link not found.", workspace.id)
        ELSE HandlerCall(userId, workspace.id, in.domain, LinkIdOf(link),
                         scopes)

\* the whole of withWorkspace up to the call of the handler
WithWorkspace(in) ==
  LET opts == RouteOptions[in.route]
      authorizationHeader == in.authorizationHeader
  IN IF Truthy(authorizationHeader)
        /\ ~Includes(authorizationHeader, "Bearer ")
     THEN Err("bad_request", "Misconfigured authorization header.", <<>>)
     ELSE
     LET apiKey == IF Truthy(authorizationHeader)
                   THEN Replace(authorizationHeader, "Bearer ")
                   ELSE <<>>
         isRestrictedToken == StartsWith(apiKey, "dub_")
         workspaceSlug == ResolveWorkspaceSlug(in.idOrSlug)
     IN IF ~Truthy(in.idOrSlug) /\ ~isRestrictedToken
        THEN IF opts.allowAnonymous /\ ~Truthy(apiKey)
             THEN AnonymousCall
             ELSE Err("not_found", "Workspace id not found.", <<>>)
        ELSE IF Truthy(apiKey)
        THEN LET hashedKey == HashToken(apiKey)
                 token == FindToken(hashedKey, isRestrictedToken)
             IN IF token = {} \/ (CHOOSE t \in token : TRUE).user = NoUser
                THEN Err("unauthorized", "Unauthorized: Invalid API key.", <<>>)
                ELSE IF ~in.rateOk
                THEN Err("rate_limit_exceeded", "Too many requests.", <<>>)
                ELSE LET t == CHOOSE x \in token : TRUE
                     IN [Authorize(in, opts, t.user, token,
                                   ResolveWorkspaceId(in.idOrSlug,
                                                      isRestrictedToken,
                                                      t.projectId),
                                   workspaceSlug)
                           EXCEPT !.touched = hashedKey]
        ELSE IF in.session = NoUser
        THEN Err("unauthorized", "Unauthorized: Login required.", <<>>)
        ELSE Authorize(in, opts, in.session, {},
                       ResolveWorkspaceId(in.idOrSlug, FALSE, <<>>),
                       workspaceSlug)

(***************************************************************************)
(* Requests                                                                *)
(***************************************************************************)
\* the Authorization header: none, a key without "Bearer ", bearer keys.
\* Header values arrive with surrounding whitespace stripped, so the bare
\* value "Bearer " (an empty key after the replace) does not occur.
AuthorizationHeaders ==
  { <<>>, <<"tok_alice">>, <<"Bearer ", "tok_alice">>,
    <<"Bearer ", "tok_orphan">>, <<"Bearer ", "tok_bad">>,
    <<"Bearer ", "dub_", "rw">>, <<"Bearer ", "dub_", "ro">> }

\* params.idOrSlug || searchParams.workspaceId || params.slug ||
\* searchParams.projectSlug
IdOrSlugs ==
  { <<>>, <<"ws_", "acme_id">>, <<"acme">>, <<"ws_", "dub_id">>, <<"dub">>,
    <<"solo">>, <<"ws_">>, <<"nope">> }

\* params.domain || searchParams.domain
DomainInputs ==
  { <<>>, <<"acme.co">>, <<"acme.link">>, <<"dub.sh">>, <<"dub.example">>,
    <<"nope.io">> }

\* searchParams.key
KeyInputs == { <<>>, <<"_root">>, <<"promo">> }

\* params.linkId || searchParams.linkId || searchParams.externalId
LinkIdInputs ==
  { <<>>, <<"l_acme">>, <<"l_dub">>, <<"ext_", "e1">>, <<"l_nope">> }

\* getSession(), called only when no API key was sent
SessionChoices(authorizationHeader) ==
  IF authorizationHeader = <<>> THEN {NoUser, "alice", "bob", "carol"}
  ELSE {NoUser}

\* ratelimit(...).limit(apiKey), called only for an API key
RateChoices(authorizationHeader) ==
  IF Includes(authorizationHeader, "Bearer ") THEN BOOLEAN ELSE {TRUE}

NoRequest ==
  [route |-> "primary", authorizationHeader |-> <<>>, idOrSlug |-> <<>>,
   domain |-> <<>>, key |-> <<>>, linkId |-> <<>>, session |-> NoUser,
   rateOk |-> TRUE]

Idle ==
  [pc |-> "idle", in |-> NoRequest, out |-> NoOutcome, setDone |-> FALSE,
   unsetDone |-> FALSE, before |-> {}]

\* the primary flags a workspace can have before a request: none, or one
PrimaryChoices ==
  {f \in [DomainSlugs -> BOOLEAN] :
     \A p \in Projects :
       Cardinality({d \in Domains : d.projectId = p.id /\ f[d.slug]}) <= 1}

Init ==
  /\ domainPrimary \in PrimaryChoices
  /\ domainPrimary[<<"dub.sh">>]
  /\ lastUsed = {}
  /\ req = [c \in Clients |-> Idle]
  /\ served = 0

\* (before records the primary domains at the time the handler is entered; no
\* operation reads it.)
\* one run of the function withWorkspace returns: the gate, then either the
\* error response, the call of a handler that writes nothing modelled here, or
\* the entry into the handler of the primary-domain route.  The update of
\* lastUsed passed to waitUntil is applied with it.
Accept(c, in) ==
  LET out == WithWorkspace(in)
  IN /\ req' = [req EXCEPT ![c] =
                  [pc |-> IF out.kind = "handler" /\ in.route = "primary"
                          THEN "handler" ELSE "done",
                   in |-> in, out |-> out, setDone |-> FALSE,
                   unsetDone |-> FALSE,
                   before |-> IF out.kind = "handler" /\ in.route = "primary"
                              THEN {d \in DomainSlugs : domainPrimary[d]}
                              ELSE {}]]
     /\ lastUsed' = IF Truthy(out.touched) THEN lastUsed \cup {out.touched}
                    ELSE lastUsed
     /\ UNCHANGED domainPrimary

\* a request to any route, served when the previous one has been answered;
\* the path of the primary-domain route always carries its [domain] segment
Receive(c) ==
  /\ req[c].pc = "idle"
  /\ served < MaxRequests
  /\ served' = served + 1
  /\ \E route \in Routes, authorizationHeader \in AuthorizationHeaders,
        idOrSlug \in IdOrSlugs, domain \in DomainInputs, key \in KeyInputs,
        linkId \in LinkIdInputs :
       \E session \in SessionChoices(authorizationHeader),
          rateOk \in RateChoices(authorizationHeader) :
         /\ route = "primary" => Truthy(domain)
         /\ Accept(c, [route |-> route,
                    authorizationHeader |-> authorizationHeader,
                    idOrSlug |-> idOrSlug, domain |-> domain, key |-> key,
                    linkId |-> linkId, session |-> session,
                    rateOk |-> rateOk])

\* a POST /api/domains/[domain]/primary of a logged-in user, sent while other
\* such requests may be in flight
ReceivePrimary(c) ==
  /\ req[c].pc = "idle"
  /\ UNCHANGED served
  /\ \E idOrSlug \in {<<"acme">>, <<"dub">>},
        domain \in {<<"acme.co">>, <<"acme.link">>, <<"ac.me">>},
        session \in {"alice", "bob"} :
       Accept(c, [NoRequest EXCEPT !.idOrSlug = idOrSlug, !.domain = domain,
                                   !.session = session])

UnsetOthersUpdate_SameSlug(workspaceId, domain) ==
  [slug \in DomainSlugs |->
     IF DomainOwner(slug) = workspaceId /\ domainPrimary[slug]
        /\ slug = domain
     THEN FALSE ELSE domainPrimary[slug]]

UnsetOthersUpdate_AllOfWorkspace(workspaceId, domain) ==
  [slug \in DomainSlugs |->
     IF DomainOwner(slug) = workspaceId /\ domainPrimary[slug]
     THEN FALSE ELSE domainPrimary[slug]]

\* prisma.domain.update({where: {slug: domain}, data: {primary: true}})
SetPrimaryUpdate(domain) == [domainPrimary EXCEPT ![domain] = TRUE]

\* prisma.domain.updateMany({where: {projectId, primary: true,
\* slug: {not: domain}}, data: {primary: false}})
UnsetOthersUpdate(workspaceId, domain) ==
  [slug \in DomainSlugs |->
     IF DomainOwner(slug) = workspaceId /\ domainPrimary[slug]
        /\ slug # domain
     THEN FALSE ELSE domainPrimary[slug]]

\* the first query of the Promise.all takes effect
SetPrimary(c) ==
  /\ req[c].pc = "handler"
  /\ ~req[c].setDone
  /\ domainPrimary' = SetPrimaryUpdate(req[c].out.domain)
  /\ req' = [req EXCEPT ![c].setDone = TRUE]
  /\ UNCHANGED <<lastUsed, served>>

\* the second query of the Promise.all takes effect
UnsetOthers(c) ==
  /\ req[c].pc = "handler"
  /\ ~req[c].unsetDone
  /\ domainPrimary' =
       UnsetOthersUpdate(req[c].out.workspaceId, req[c].out.domain)
  /\ req' = [req EXCEPT ![c].unsetDone = TRUE]
  /\ UNCHANGED <<lastUsed, served>>

\* both queries have resolved: NextResponse.json(DomainSchema.parse(...))
Respond(c) ==
  /\ req[c].pc = "handler"
  /\ req[c].setDone
  /\ req[c].unsetDone
  /\ req' = [req EXCEPT ![c].pc = "done"]
  /\ UNCHANGED <<domainPrimary, lastUsed, served>>

\* the response has been returned to the caller
Return(c) ==
  /\ req[c].pc = "done"
  /\ req' = [req EXCEPT ![c] = Idle]
  /\ UNCHANGED <<domainPrimary, lastUsed, served>>

\* requests served one at a time
Next ==
  \/ Receive(1)
  \/ SetPrimary(1)
  \/ UnsetOthers(1)
  \/ Respond(1)
  \/ Return(1)

Spec == Init /\ [][Next]_vars

\* concurrent requests to the primary-domain endpoint
NextConc ==
  \E c \in Clients :
    \/ ReceivePrimary(c)
    \/ SetPrimary(c)
    \/ UnsetOthers(c)
    \/ Respond(c)
    \/ Return(c)

SpecConc == Init /\ [][NextConc]_vars

(***************************************************************************)
(* Vocabulary of the properties                                            *)
(***************************************************************************)
Opts(c) == RouteOptions[req[c].in.route]

Answered(c) == req[c].pc # "idle"

Invoked(c) == Answered(c) /\ req[c].out.kind = "handler"

\* the API key carried by the Authorization header, if any
BearerKey(in) ==
  IF Len(in.authorizationHeader) >= 1 /\ in.authorizationHeader[1] = "Bearer "
  THEN Tail(in.authorizationHeader)
  ELSE <<>>

RestrictedKey(in) == Len(BearerKey(in)) >= 1 /\ BearerKey(in)[1] = "dub_"

AnonymousPath(c) ==
  /\ Opts(c).allowAnonymous
  /\ req[c].in.authorizationHeader = <<>>
  /\ req[c].in.idOrSlug = <<>>

\* the users of the stored tokens whose hash matches the key
KeyUsers(in) ==
  {t.user : t \in {x \in Tokens : x.hashedKey = HashToken(BearerKey(in))}}
    \cup
  {t.user : t \in {x \in RestrictedTokens :
                     x.hashedKey = HashToken(BearerKey(in))}}

\* the authenticated caller, NoUser when authentication fails
Caller(in) ==
  IF in.authorizationHeader # <<>>
  THEN IF BearerKey(in) # <<>> /\ KeyUsers(in) # {}
       THEN CHOOSE u \in KeyUsers(in) : TRUE
       ELSE NoUser
  ELSE in.session

IsMember(user, workspaceId) ==
  \E m \in ProjectUsers : m.projectId = workspaceId /\ m.userId = user

PrimariesOf(workspaceId) ==
  {d \in Domains : d.projectId = workspaceId /\ domainPrimary[d.slug]}

InPrimaryHandler(c) ==
  /\ req[c].pc \in {"handler", "done"}
  /\ req[c].in.route = "primary"
  /\ req[c].out.kind = "handler"

(***************************************************************************)
(* C1  Outside the anonymous path the handler is invoked only for an       *)
(* authenticated caller (a stored token with a user for the API key sent,  *)
(* or a session user when no key is sent) who is a member of the resolved, *)
(* existing workspace; every other request is answered with an error.      *)
(***************************************************************************)
C1_HandlerOnlyForAuthenticatedMember ==
  \A c \in Clients :
    Answered(c) =>
      /\ req[c].out.kind \in {"handler", "error"}
      /\ req[c].out.anonymous => AnonymousPath(c)
      /\ (req[c].out.kind = "handler" /\ ~AnonymousPath(c)) =>
           /\ Caller(req[c].in) # NoUser
           /\ req[c].out.user = Caller(req[c].in)
           /\ \E w \in Projects : w.id = req[c].out.workspaceId
           /\ IsMember(Caller(req[c].in), req[c].out.workspaceId)

C1_Witness ==
  \E c \in Clients :
    /\ Invoked(c)
    /\ ~AnonymousPath(c)
    /\ BearerKey(req[c].in) = <<"tok_alice">>
    /\ req[c].out.workspaceId = <<"solo_id">>

(***************************************************************************)
(* C2  Unless skipScopeChecks is set, a non-anonymous handler call happens *)
(* only when the caller's scopes were accepted against requiredScopes: the *)
(* token's own scope list for a restricted key, the scopes of the caller's *)
(* role otherwise.  The primary-domain handler runs only with              *)
(* domains.write among them.                                               *)
(***************************************************************************)
IsWord(x) == x # " "

Words(s) ==
  [i \in 1..Len(SelectSeq(s, IsWord)) |-> <<SelectSeq(s, IsWord)[i]>>]

CallerScopes(c) ==
  IF RestrictedKey(req[c].in)
  THEN Words((CHOOSE t \in RestrictedTokens :
                t.hashedKey = HashToken(BearerKey(req[c].in))).scopes)
  ELSE roleScopesMapping[
         (CHOOSE m \in ProjectUsers :
            /\ m.projectId = req[c].out.workspaceId
            /\ m.userId = Caller(req[c].in)).role]

C2_HandlerOnlyWithAcceptedScopes ==
  \A c \in Clients :
    (Invoked(c) /\ ~AnonymousPath(c) /\ ~Opts(c).skipScopeChecks) =>
      /\ req[c].out.scopes = CallerScopes(c)
      /\ HasAccess(CallerScopes(c), Opts(c).requiredScopes)
      /\ req[c].in.route = "primary" =>
           \E i \in 1..Len(CallerScopes(c)) :
             CallerScopes(c)[i] = <<"domains.write">>

C2_Witness ==
  \E c \in Clients :
    /\ Invoked(c)
    /\ req[c].in.route = "primary"
    /\ BearerKey(req[c].in) = <<"dub_", "rw">>

(***************************************************************************)
(* C3  A POST to the primary-domain endpoint for domain D of workspace W   *)
(* that ran to completion alone leaves D primary and no other domain of W  *)
(* primary, whichever domain of W was primary before.                      *)
(***************************************************************************)
C3_OnlyRequestedDomainPrimary ==
  \A c \in Clients :
    (InPrimaryHandler(c) /\ req[c].pc = "done") =>
      /\ DomainOwner(req[c].in.domain) = req[c].out.workspaceId
      /\ PrimariesOf(req[c].out.workspaceId) =
           {d \in Domains : d.slug = req[c].in.domain}

C3_Witness ==
  \E c \in Clients :
    /\ InPrimaryHandler(c)
    /\ req[c].pc = "done"
    /\ req[c].in.domain = <<"acme.link">>
    /\ <<"acme.co">> \in req[c].before
    /\ ~domainPrimary[<<"acme.co">>]

(***************************************************************************)
(* C4  As claimed: the previous primary domain is unset before the         *)
(* requested one is set, and no intermediate state of a request shows two  *)
(* primary domains in the workspace.                                       *)
(***************************************************************************)
C4_UnsetBeforeSet ==
  \A c \in Clients :
    InPrimaryHandler(c) =>
      /\ req[c].setDone => req[c].unsetDone
      /\ Cardinality(PrimariesOf(req[c].out.workspaceId)) <= 1

(***************************************************************************)
(* C4 amended  The two updates of one POST take effect in either order:    *)
(* the requested domain is primary once the first has been applied, no     *)
(* other domain of the workspace is primary once the second has, the       *)
(* response follows both, and in between the primary domains are among the *)
(* previous primary and the requested domain (possibly both, or none).     *)
(***************************************************************************)
C4_TwoUnorderedSteps ==
  \A c \in Clients :
    InPrimaryHandler(c) =>
      LET D == {d \in Domains : d.slug = req[c].in.domain}
          P == PrimariesOf(req[c].out.workspaceId)
      IN /\ req[c].setDone => D \subseteq P
         /\ req[c].unsetDone => P \subseteq D
         /\ P \subseteq D \cup {d \in Domains : d.slug \in req[c].before}
         /\ req[c].pc = "done" => (req[c].setDone /\ req[c].unsetDone)

C4_Witness ==
  \E c \in Clients :
    /\ InPrimaryHandler(c)
    /\ req[c].pc = "handler"
    /\ req[c].setDone
    /\ ~req[c].unsetDone
    /\ Cardinality(PrimariesOf(req[c].out.workspaceId)) = 2

(***************************************************************************)
(* C5  As claimed: on a route with needNotExceededLinks a request for a    *)
(* workspace whose linksUsage exceeds its linksLimit gets a forbidden      *)
(* error and never the handler, whatever the plan.                         *)
(***************************************************************************)
OverLinksLimit(workspaceId) ==
  \E w \in Projects : w.id = workspaceId /\ w.linksUsage > w.linksLimit

PlanOf(workspaceId) == (CHOOSE w \in Projects : w.id = workspaceId).plan

C6_ExactlyOnePrimary ==
  (\A c \in Clients : req[c].pc \in {"idle", "done"}) =>
    \A c \in Clients :
      (InPrimaryHandler(c) /\ req[c].pc = "done") =>
        Cardinality(PrimariesOf(req[c].out.workspaceId)) = 1

(***************************************************************************)
(* C7  With a restricted token (a key starting with dub_) the workspace    *)
(* passed to the handler is the one the token belongs to, whatever         *)
(* workspace id or slug the request names.                                 *)
(***************************************************************************)
C7_RestrictedTokenWorkspace ==
  \A c \in Clients :
    (Invoked(c) /\ RestrictedKey(req[c].in)) =>
      \E t \in RestrictedTokens :
        /\ t.hashedKey = HashToken(BearerKey(req[c].in))
        /\ req[c].out.workspaceId = t.projectId

C7_Witness ==
  \E c \in Clients :
    /\ Invoked(c)
    /\ BearerKey(req[c].in) = <<"dub_", "rw">>
    /\ req[c].in.idOrSlug = <<"ws_", "dub_id">>
    /\ req[c].out.workspaceId = <<"acme_id">>

(***************************************************************************)
(* C8  A non-anonymous request that supplies a domain reaches the handler  *)
(* only if the domain belongs to the resolved workspace (a custom domain   *)
(* is one of the workspace's domains; a Dub default domain on a route with *)
(* domainChecks needs the Dub workspace), and is otherwise answered with a *)
(* forbidden error.  A POST to the primary-domain endpoint for a custom    *)
(* domain never changes the primary flag of another workspace's domain.    *)
(***************************************************************************)
Belongs(domain, workspaceId, domainChecks) ==
  IF isDubDomain(domain)
  THEN domainChecks => workspaceId = DUB_WORKSPACE_ID
  ELSE \E d \in Domains : d.slug = domain /\ d.projectId = workspaceId

C8_DomainChecked ==
  \A c \in Clients :
    (Answered(c) /\ ~AnonymousPath(c) /\ req[c].in.domain # <<>>) =>
      /\ req[c].out.kind = "handler" =>
           Belongs(req[c].in.domain, req[c].out.workspaceId,
                   Opts(c).domainChecks)
      /\ (/\ req[c].out.workspaceId # <<>>
          /\ ~Belongs(req[c].in.domain, req[c].out.workspaceId,
                      Opts(c).domainChecks)) =>
           (req[c].out.kind = "error" /\ req[c].out.code = "forbidden")

C8_OtherWorkspacesUntouched ==
  \A c \in Clients :
    (/\ InPrimaryHandler(c)
     /\ ~isDubDomain(req[c].in.domain)
     /\ req'[c] # req[c]) =>
      \A d \in Domains :
        d.projectId # req[c].out.workspaceId =>
          domainPrimary'[d.slug] = domainPrimary[d.slug]

C8_DomainBelongsToWorkspace ==
  [] C8_DomainChecked /\ [][C8_OtherWorkspacesUntouched]_vars

C8_Witness ==
  \E c \in Clients :
    /\ InPrimaryHandler(c)
    /\ req[c].in.domain = <<"dub.example">>
    /\ req[c].setDone
    /\ req[c].unsetDone
    /\ \E d \in Domains : d.projectId = <<"acme_id">> /\ domainPrimary[d.slug]

(***************************************************************************)
(* C9  As claimed: whenever a request supplies a link id or external id,   *)
(* or a domain with a key other than "_root", and the route does not set   *)
(* skipLinkChecks, the handler is invoked only with a link that exists and *)
(* is owned by the resolved workspace.                                     *)
(***************************************************************************)
LinkSupplied(in) ==
  \/ in.linkId # <<>>
  \/ (in.domain # <<>> /\ in.key # <<>> /\ in.key # <<"_root">>)

LinkOwned(c) ==
  \E l \in Links :
    l.id = req[c].out.link /\ l.projectId = req[c].out.workspaceId

C9_HandlerOnlyWithOwnedLink ==
  \A c \in Clients :
    (Invoked(c) /\ LinkSupplied(req[c].in) /\ ~Opts(c).skipLinkChecks) =>
      LinkOwned(c)

(***************************************************************************)
(* C9 amended  Whenever a non-anonymous request supplies a link id or      *)
(* external id, or a domain with a key other than "_root", and the route   *)
(* does not set skipLinkChecks, the handler is invoked only with a link    *)
(* that exists and is owned by the resolved workspace; the not_found error *)
(* "Link not found." is returned only when the workspace owns no link of   *)
(* that id, external id or domain and key.                                 *)
(***************************************************************************)
Designates(in, l) ==
  IF in.linkId # <<>>
  THEN \/ l.id = in.linkId
       \/ (in.linkId[1] = "ext_" /\ l.externalId = Tail(in.linkId))
  ELSE l.domain = in.domain /\ l.key = in.key

C9_NonAnonymousHandlerOnlyWithOwnedLink ==
  \A c \in Clients :
    /\ (/\ Invoked(c)
        /\ ~AnonymousPath(c)
        /\ LinkSupplied(req[c].in)
        /\ ~Opts(c).skipLinkChecks) =>
         (LinkOwned(c)
          /\ Designates(req[c].in,
                        CHOOSE l \in Links : l.id = req[c].out.link))
    /\ (Answered(c) /\ req[c].out.message = "Link not found.") =>
         /\ req[c].out.code = "not_found"
         /\ ~\E l \in Links :
               /\ l.projectId = req[c].out.workspaceId
               /\ Designates(req[c].in, l)

C9_Witness ==
  \E c \in Clients :
    /\ Invoked(c)
    /\ ~Opts(c).skipLinkChecks
    /\ req[c].in.linkId = <<"ext_", "e1">>
    /\ req[c].in.idOrSlug = <<"acme">>
    /\ req[c].out.link = <<"l_acme">>

(***************************************************************************)
(* C10  When the workspace exists and the authenticated caller is not a    *)
(* member of it, the error follows the caller's invite to the workspace:   *)
(* not_found without an invite, invite_expired for an invite whose expiry  *)
(* is past, invite_pending for a valid one.                                *)
(***************************************************************************)
NamedWorkspaces(in) ==
  {w \in Projects :
     \/ (Len(in.idOrSlug) = 2 /\ in.idOrSlug[1] = "ws_"
         /\ w.id = Tail(in.idOrSlug))
     \/ w.slug = in.idOrSlug}

InviteCode(user, workspaceId) ==
  LET inv == {i \in ProjectInvites :
                i.email = UserEmail[user] /\ i.projectId = workspaceId}
  IN IF inv = {} THEN "not_found"
     ELSE IF \E i \in inv : i.expires < Now THEN "invite_expired"
          ELSE "invite_pending"

C10_ErrorFollowsInvite ==
  \A c \in Clients :
    (/\ Answered(c)
     /\ req[c].in.authorizationHeader = <<>>
     /\ req[c].in.session # NoUser) =>
      \A w \in NamedWorkspaces(req[c].in) :
        ~IsMember(req[c].in.session, w.id) =>
          /\ req[c].out.kind = "error"
          /\ req[c].out.code = InviteCode(req[c].in.session, w.id)

====
